---- MODULE Spec2Model ----
(***************************************************************************)
(* Model of the layout computation of the GanttRing visual                 *)
(* (src/src/Clients/Visuals/visuals/ganttRing.ts): calcPercent,            *)
(* calcTaskRadians and buildGantTasks, and of the visual around them:      *)
(* converter, update, draw, the click handlers, clearSelection and         *)
(* updateSelection.                                                        *)
(*                                                                         *)
(* Numbers.  Timestamps are integers (Date.valueOf(), milliseconds).       *)
(* A JavaScript number that results from a division is kept as an exact    *)
(* fraction <<n, d>> with d >= 0; d = 0 is an infinity of the sign of n    *)
(* (x / 0 in IEEE arithmetic).  Angles are kept in units of pi radians.    *)
(***************************************************************************)
EXTENDS Integers, Sequences, FiniteSets

VARIABLES
    starts,     \* buildGantTasks argument starts[] (timestamps)
    ends,       \* buildGantTasks argument ends[]   (timestamps)
    now,        \* the value Date.now() returns during the call
    gantt,      \* the IGantt object handed to buildGantTasks
    pc,         \* "call": before buildGantTasks, "done": returned, "threw"
    cValue,     \* calcPercent / calcTaskRadians argument: value
    cValue2,    \* a second value, for comparing two evaluations
    cTotal,     \* calcPercent total / calcTaskRadians duration
    cZero,      \* calcTaskRadians argument defaultToZero
    cOut,       \* the evaluation made and its results; op = "none" before
    dataViews,  \* options.dataViews of the last update() call
    conv,       \* how the last update() went through the converter
    updates,    \* number of update() calls so far
    drawn,      \* <<gantt>> handed to the last draw(), <<>> before the first
    paths,      \* the task paths of this.g: bound datum and styles
    progressText,   \* the text of the progress text element
    totalProgress,  \* this.totalProgress
    selectedIds,    \* the selection manager's getSelectionIds()
    pending     \* selection promises resolved whose then-callback is to run

visualVars == <<dataViews, conv, updates, drawn, paths, progressText,
                totalProgress, selectedIds, pending>>

vars == <<starts, ends, now, gantt, pc, cValue, cValue2, cTotal, cZero, cOut,
          dataViews, conv, updates, drawn, paths, progressText,
          totalProgress, selectedIds, pending>>

\* ------------------------------------------------------------------ bounds
MaxTasks == 3          \* longest task list of Spec
MaxPackTasks == 4      \* longest task list of SpecPack
MaxTime == 2           \* timestamps of Spec are 0..MaxTime
MaxPackTime == 3       \* timestamps of SpecPack are 0..MaxPackTime
MaxNow == 2            \* Date.now() is 0..MaxNow
MaxValue == 4          \* calcPercent values are -MaxValue..MaxValue
MaxTotal == 3          \* calcPercent totals are -MaxTotal..MaxTotal
MaxViewTasks == 2      \* task names of SpecVisual are 1..MaxViewTasks
MaxRefresh == 2        \* update() calls in a behaviour of SpecVisual

\* ------------------------------------------------------- number arithmetic
NegInf == <<-1, 0>>
PosInf == <<1, 0>>
NaN == <<0, 0>>        \* 0 / 0; calcPercent never divides 0 by 0

\* a <= b, a < b, a = b on fractions (cross-multiplication, d >= 0)
FLeq(a, b) == a[1] * b[2] <= b[1] * a[2]
FLt(a, b) == a[1] * b[2] < b[1] * a[2]
FEq(a, b) == a[1] * b[2] = b[1] * a[2]
FGeq(a, b) == FLeq(b, a)

Int2F(n) == <<n, 1>>

\* Math.max, Math.abs
Max(a, b) == IF a > b THEN a ELSE b
Abs(a) == IF a < 0 THEN -a ELSE a

\* Math.round of a fraction: floor(x + 1/2); an infinity stays an infinity
Round(x) == IF x[2] = 0 THEN x ELSE Int2F((2 * x[1] + x[2]) \div (2 * x[2]))

\* value / (total / 100)
PercentOf(value, total) ==
    IF total > 0 THEN <<100 * value, total>>
    ELSE IF total < 0 THEN <<-100 * value, -total>>
    ELSE IF value < 0 THEN NegInf ELSE IF value > 0 THEN PosInf ELSE NaN

\* calcPercent without the cap: the value >= total test is lost
calcPercentNoCap(value, total, overflowValue) == PercentOf(value, total)

\* ------------------------------------------------------------ calcPercent
calcPercent(value, total, overflowValue) ==
    IF value >= total THEN Int2F(overflowValue) ELSE PercentOf(value, total)

\* calcTaskRadians with the two overflow values exchanged
calcTaskRadiansSwapped(value, duration, defaultToZero) ==
    LET percent == calcPercent(value, duration, IF defaultToZero THEN 100 ELSE 0)
    IN  <<percent[1] * 36, percent[2] * 1800>>

\* -------------------------------------------------------- calcTaskRadians
\* degrees = percent * 3.6 ; radians = degrees * PI / 180, in units of PI:
\* percent * 36 / 1800
calcTaskRadians(value, duration, defaultToZero) ==
    LET percent == calcPercent(value, duration, IF defaultToZero THEN 0 ELSE 100)
    IN  <<percent[1] * 36, percent[2] * 1800>>

\* --------------------------------------------------------- buildGantTasks
\* starts.reduce((prev, curr) => prev < curr ? prev : curr)
RECURSIVE ReduceMin(_, _, _)
ReduceMin(s, i, prev) ==
    IF i > Len(s) THEN prev
    ELSE ReduceMin(s, i + 1, IF prev < s[i] THEN prev ELSE s[i])

\* ends.reduce((prev, curr) => prev > curr ? prev : curr)
RECURSIVE ReduceMax(_, _, _)
ReduceMax(s, i, prev) ==
    IF i > Len(s) THEN prev
    ELSE ReduceMax(s, i + 1, IF prev > s[i] THEN prev ELSE s[i])

\* the overlap test with strict comparisons: touching arcs count as overlap
NoOverlapStrict(t, task) ==
    FLt(task.endAngle, t.startAngle) \/ FLt(t.endAngle, task.startAngle)

\* t.startAngle >= task.endAngle || t.endAngle <= task.startAngle
NoOverlap(t, task) ==
    FGeq(t.startAngle, task.endAngle) \/ FLeq(t.endAngle, task.startAngle)

\* the room test that looks at the last member of the layer only
hasRoomLast(layer, built, task) ==
    Len(layer) = 0 \/ NoOverlap(built[layer[Len(layer)]], task)

\* layers[l].every(...): layers[l] holds positions into the tasks built so far
hasRoom(layer, built, task) ==
    \A k \in 1..Len(layer) : NoOverlap(built[layer[k]], task)

\* the scan run from the last layer down: the last l with room, or -1
FirstFitFromTop(layers, built, task, l) ==
    LET fit == { k \in l..(Len(layers) - 1) : hasRoom(layers[k + 1], built, task) }
    IN  IF fit = {} THEN -1 ELSE CHOOSE k \in fit : \A j \in fit : j <= k

\* the for loop over the layers: the first l with room, or -1.
\* Layers are 0-based in the code, sequences 1-based here.
RECURSIVE FirstFit(_, _, _, _)
FirstFit(layers, built, task, l) ==
    IF l >= Len(layers) THEN -1
    ELSE IF hasRoom(layers[l + 1], built, task) THEN l
    ELSE FirstFit(layers, built, task, l + 1)

\* the task object of the map callback, before its layer is set
NewTask(i, start, duration, s, e, t) ==
    LET taskStartValue == s[i + 1]
        taskEndValue == e[i + 1]
        taskDuration == taskEndValue - taskStartValue
        completed == Max(t, taskStartValue) - taskStartValue
        progress == Round(calcPercent(completed, taskDuration, 100))
    IN  [ layer |-> -1,
          progress |-> progress,
          startAngle |-> calcTaskRadians(taskStartValue - start, duration, TRUE),
          endAngle |-> calcTaskRadians(taskEndValue - start, duration, FALSE),
          selector |-> i ]

\* the map callback that compacts whatever gantt.compress says
MapStepIgnoreFlag(i, st, start, duration, s, e, t, compress) ==
    LET task == NewTask(i, start, duration, s, e, t)
        l == FirstFit(st.layers, st.built, task, 0)
    IN  IF l # -1
        THEN [ built |-> Append(st.built, [task EXCEPT !.layer = l]),
               layers |-> [st.layers EXCEPT ![l + 1] = Append(@, i + 1)] ]
        ELSE [ built |-> Append(st.built, [task EXCEPT !.layer = Len(st.layers)]),
               layers |-> Append(st.layers, <<i + 1>>) ]

\* one call of the map callback for input position i (0-based);
\* st = [built |-> tasks returned so far, layers |-> the layers array]
MapStep(i, st, start, duration, s, e, t, compress) ==
    LET task == NewTask(i, start, duration, s, e, t)
        l == FirstFit(st.layers, st.built, task, 0)
    IN  IF compress
        THEN IF l # -1
             THEN [ built |-> Append(st.built, [task EXCEPT !.layer = l]),
                    layers |-> [st.layers EXCEPT ![l + 1] = Append(@, i + 1)] ]
             ELSE [ built |-> Append(st.built,
                                     [task EXCEPT !.layer = Len(st.layers)]),
                    layers |-> Append(st.layers, <<i + 1>>) ]
        ELSE [ built |-> Append(st.built, [task EXCEPT !.layer = i]),
               layers |-> st.layers ]

\* names.map(...) from input position i on
RECURSIVE MapFrom(_, _, _, _, _, _, _, _)
MapFrom(i, st, start, duration, s, e, t, compress) ==
    IF i >= Len(s) THEN st
    ELSE MapFrom(i + 1, MapStep(i, st, start, duration, s, e, t, compress),
                 start, duration, s, e, t, compress)

\* buildGantTasks that sets gantt.layers to the task count in both modes
buildGantTasksCountTasks(g, s, e, t) ==
    LET start == ReduceMin(s, 2, s[1])
        end == ReduceMax(e, 2, e[1])
        duration == Abs(end - start)
        st == MapFrom(0, [built |-> <<>>, layers |-> << <<>> >>],
                      start, duration, s, e, t, g.compress)
        progress == Max(t, start) - start
    IN  [ g EXCEPT
            !.tasks = st.built,
            !.layers = Len(st.built),
            !.progress = Round(calcPercent(progress, duration, 100)),
            !.progressAngle = calcTaskRadians(progress, duration, FALSE) ]

\* the IGantt object buildGantTasks leaves behind (non-empty input)
buildGantTasks(g, s, e, t) ==
    LET start == ReduceMin(s, 2, s[1])
        end == ReduceMax(e, 2, e[1])
        duration == Abs(end - start)
        st == MapFrom(0, [built |-> <<>>, layers |-> << <<>> >>],
                      start, duration, s, e, t, g.compress)
        progress == Max(t, start) - start
    IN  [ g EXCEPT
            !.tasks = st.built,
            !.layers = IF g.compress THEN Len(st.layers) ELSE Len(st.built),
            !.progress = Round(calcPercent(progress, duration, 100)),
            !.progressAngle = calcTaskRadians(progress, duration, FALSE) ]

\* the object the converter creates before it calls buildGantTasks
NewGantt(compress) ==
    [ tasks |-> <<>>, layers |-> 0, progress |-> Int2F(0),
      progressAngle |-> Int2F(0), compress |-> compress ]

\* -------------------------------------------------------------- converter
\* A data view: categorical (dataView.categorical is there), categories
\* (number of category columns), names (category.values, the key of each
\* category identity), values (number of value series), starts and ends
\* (values[0].values, values[1].values), compress (compressLayout).

\* (task, i) => SelectionId.createWithId(category.identity[i]): a new
\* SelectionId object obj for the identity of names[i]
WithSelectors(tasks, names, obj) ==
    [ i \in 1..Len(tasks) |->
        [ tasks[i] EXCEPT !.selector = [key |-> names[i], obj |-> obj] ] ]

\* the converter that asks for one value series only
converterOneSeries(dv, t, obj) ==
    LET g == NewGantt(dv.compress)
    IN  IF dv.categorical /\ dv.categories > 0 /\ dv.values >= 1
        THEN IF Len(dv.names) = 0 \/ dv.values < 2
             THEN [ outcome |-> "threw", built |-> TRUE, gantt |-> g ]
             ELSE LET b == buildGantTasks(g, dv.starts, dv.ends, t)
                  IN  [ outcome |-> "returned", built |-> TRUE,
                        gantt |-> [ b EXCEPT
                            !.tasks = WithSelectors(b.tasks, dv.names, obj) ] ]
        ELSE [ outcome |-> "returned", built |-> FALSE, gantt |-> g ]

\* GanttRing.converter: outcome "returned" with the IGantt object, or
\* "threw" (the TypeError of reduce() on an empty column); built says
\* whether buildGantTasks was called
converter(dv, t, obj) ==
    LET g == NewGantt(dv.compress)
    IN  IF dv.categorical /\ dv.categories > 0 /\ dv.values >= 2
        THEN IF Len(dv.names) = 0
             THEN [ outcome |-> "threw", built |-> TRUE, gantt |-> g ]
             ELSE LET b == buildGantTasks(g, dv.starts, dv.ends, t)
                  IN  [ outcome |-> "returned", built |-> TRUE,
                        gantt |-> [ b EXCEPT
                            !.tasks = WithSelectors(b.tasks, dv.names, obj) ] ]
        ELSE [ outcome |-> "returned", built |-> FALSE, gantt |-> g ]

\* ------------------------------------------------------------- the visual
\* A text is <<s, n>> as a record: a fixed label s, or s = "%" after the
\* number n.  NoText stands for undefined (this.totalProgress before the
\* first draw) and for a progress text element that is not there yet.
Label(s) == [s |-> s, n |-> Int2F(0)]
Percent(n) == [s |-> "%", n |-> n]
NoText == Label("")

getTotalProgressLabel(tasksCount, progress) ==
    IF tasksCount = 0 THEN Label("Project Has No Tasks")
    ELSE IF FLeq(progress, Int2F(0)) THEN Label("Not Started")
    ELSE IF FGeq(progress, Int2F(100)) THEN Label("Completed")
    ELSE Percent(progress)

\* the styles updateSelection sets; opacity in tenths
Highlighted == [opacity |-> 10, stroke |-> "#000", strokeWidth |-> 2]
Dimmed == [opacity |-> 5, stroke |-> "#fff", strokeWidth |-> 1]
Plain == [opacity |-> 10, stroke |-> "#fff", strokeWidth |-> 1]

\* the path drawTasks appends for an entering task: white stroke of width
\* 1, opacity left at its default
EnterPath(task) == [data |-> task, style |-> Plain]

\* selectionManager.select(id) of a single selection: an id that is
\* selected already is deselected, any other id replaces the selection
SelectionManagerSelect(ids, id) ==
    IF \E k \in 1..Len(ids) : ids[k].key = id.key THEN <<>> ELSE <<id>>

\* selectionManager.clear()
SelectionManagerClear(ids) == <<>>

\* The widget state the handlers work on is a record w of paths,
\* progressText, totalProgress, selectedIds and pending; an entry of
\* pending is the isClear argument its callback gives updateSelection.

\* GanttRing.clearSelection; the then-callback is left pending
clearSelection(w) ==
    [ w EXCEPT !.selectedIds = SelectionManagerClear(@),
               !.pending = Append(@, TRUE) ]

\* .text(t) on the selection of the progress text element
SetText(w, t) == IF w.progressText = NoText THEN NoText ELSE t

\* updateSelection that never resets the paths
updateSelectionNoReset(w, isClear) ==
    LET Ids == w.selectedIds
        selection == IF Len(Ids) = 0 THEN {}
                     ELSE { i \in 1..Len(w.paths) :
                              w.paths[i].data.selector = Ids[1] }
    IN  IF selection = {} /\ Len(Ids) > 0
        THEN clearSelection(w)
        ELSE IF selection # {}
        THEN LET task ==
                   w.paths[CHOOSE i \in selection :
                              \A j \in selection : i <= j].data
             IN  [ w EXCEPT
                     !.paths = [ i \in 1..Len(w.paths) |->
                         [ w.paths[i] EXCEPT !.style =
                             IF w.paths[i].data.selector = task.selector
                             THEN Highlighted ELSE Dimmed ] ],
                     !.progressText = SetText(w, Percent(task.progress)) ]
        ELSE [ w EXCEPT !.progressText = SetText(w, w.totalProgress) ]

\* GanttRing.updateSelection(isClear); the transitions are taken at their
\* end values
updateSelection(w, isClear) ==
    LET Ids == w.selectedIds
        selection == IF Len(Ids) = 0 THEN {}
                     ELSE { i \in 1..Len(w.paths) :
                              w.paths[i].data.selector = Ids[1] }
    IN  IF selection = {} /\ Len(Ids) > 0
        THEN clearSelection(w)
        ELSE IF selection # {}
        THEN LET task ==
                   w.paths[CHOOSE i \in selection :
                              \A j \in selection : i <= j].data
             IN  [ w EXCEPT
                     !.paths = [ i \in 1..Len(w.paths) |->
                         [ w.paths[i] EXCEPT !.style =
                             IF w.paths[i].data.selector = task.selector
                             THEN Highlighted ELSE Dimmed ] ],
                     !.progressText = SetText(w, Percent(task.progress)) ]
        ELSE [ w EXCEPT
                 !.paths = IF isClear
                           THEN [ i \in 1..Len(w.paths) |->
                                    [ w.paths[i] EXCEPT !.style = Plain ] ]
                           ELSE @,
                 !.progressText = SetText(w, w.totalProgress) ]

\* the data join of draw and drawTasks, keyed by selector.getKey(): a
\* path whose key is in the new tasks gets the new datum and keeps its
\* styles, the other new tasks enter, the other paths exit
drawTasks(oldPaths, tasks) ==
    [ i \in 1..Len(tasks) |->
        LET same == { j \in 1..Len(oldPaths) :
                        oldPaths[j].data.selector.key = tasks[i].selector.key }
        IN  IF same = {} THEN EnterPath(tasks[i])
            ELSE [ oldPaths[CHOOSE j \in same : TRUE] EXCEPT !.data = tasks[i] ] ]

\* GanttRing.draw: drawTasks, totalProgress, drawProgress (the text is
\* set when the element enters only), updateSelection()
draw(w, g) ==
    LET total == getTotalProgressLabel(Len(g.tasks), g.progress)
    IN  updateSelection(
            [ w EXCEPT
                !.paths = drawTasks(w.paths, g.tasks),
                !.totalProgress = total,
                !.progressText = IF @ = NoText THEN total ELSE @ ],
            FALSE)

\* ------------------------------------------------------------- the inputs
\* a column of n timestamps; starts and ends are aligned columns
Columns(n, maxTime) == [1..n -> 0..maxTime]

\* the intervals <<start, end>> with start <= end
Intervals(maxTime) ==
    { se \in (0..maxTime) \X (0..maxTime) : se[1] <= se[2] }

\* no evaluation of the pure functions is under way
CalcIdle ==
    /\ cValue = 0 /\ cValue2 = 0 /\ cTotal = 0 /\ cZero = FALSE
    /\ cOut = [op |-> "none"]

\* the visual after init(): nothing drawn, nothing selected
VisualIdle ==
    /\ dataViews = <<>>
    /\ conv = [outcome |-> "none", built |-> FALSE]
    /\ updates = 0
    /\ drawn = <<>>
    /\ paths = <<>>
    /\ progressText = NoText
    /\ totalProgress = NoText
    /\ selectedIds = <<>>
    /\ pending = <<>>

\* the task names in a snapshot: some of 1..MaxViewTasks, in order
NameLists ==
    { names \in UNION { [1..n -> 1..MaxViewTasks] : n \in 0..MaxViewTasks } :
        \A i \in 1..(Len(names) - 1) : names[i] < names[i + 1] }

\* the data views of SpecVisual: every shape of the categorical data; the
\* task named k runs from k - 1 to k
Views ==
    { [ categorical |-> c, categories |-> nc, names |-> names, values |-> v,
        starts |-> IF v >= 1 THEN [i \in 1..Len(names) |-> names[i] - 1]
                   ELSE <<>>,
        ends |-> IF v >= 2 THEN [i \in 1..Len(names) |-> names[i]]
                 ELSE <<>>,
        compress |-> compress ] :
        c \in BOOLEAN, nc \in 0..1, names \in NameLists, v \in 0..2,
        compress \in BOOLEAN }

\* options.dataViews of an update: no data view, or one
ViewOptions ==
    { <<>> } \cup
    { <<dv>> : dv \in { x \in Views :
                          /\ ~x.categorical => x.categories = 0 /\ x.values = 0
                          /\ x.categories = 0 => x.names = <<>> } }

\* the converter has created the IGantt object and is about to call
\* buildGantTasks with any aligned columns, inverted intervals included
InitBuild ==
    /\ \E n \in 0..MaxTasks :
          starts \in Columns(n, MaxTime) /\ ends \in Columns(n, MaxTime)
    /\ now \in 0..MaxNow
    /\ \E c \in BOOLEAN : gantt = NewGantt(c)
    /\ pc = "call"
    /\ CalcIdle
    /\ VisualIdle

\* calcPercent / calcTaskRadians are about to be evaluated on any arguments
InitCalc ==
    /\ cValue \in -MaxValue..MaxValue
    /\ cValue2 \in -MaxValue..MaxValue
    /\ cTotal \in -MaxTotal..MaxTotal
    /\ cZero \in BOOLEAN
    /\ cOut = [op |-> "none"]
    /\ starts = <<>> /\ ends = <<>> /\ now = 0
    /\ gantt = NewGantt(FALSE)
    /\ pc = "calc"
    /\ VisualIdle

\* compression on, every interval with start <= end; the tasks come in
\* order of start time, except that the last one may come late
InitPack ==
    /\ \E n \in 0..MaxPackTasks :
          \E iv \in [1..n -> Intervals(MaxPackTime)] :
              /\ \A i \in 1..(n - 2) : iv[i][1] <= iv[i + 1][1]
              /\ starts = [i \in 1..n |-> iv[i][1]]
              /\ ends = [i \in 1..n |-> iv[i][2]]
    /\ now = 0
    /\ gantt = NewGantt(TRUE)
    /\ pc = "call"
    /\ CalcIdle
    /\ VisualIdle

\* the visual after init() at time 0
InitVisual ==
    /\ starts = <<>> /\ ends = <<>> /\ now = 0
    /\ gantt = NewGantt(FALSE)
    /\ pc = "visual"
    /\ CalcIdle
    /\ VisualIdle

Init == InitBuild \/ InitCalc

\* ------------------------------------------------------------ the actions
\* GanttRing.buildGantTasks: reduce() of an empty array without an initial
\* value throws a TypeError before anything is assigned
BuildGantTasks ==
    /\ pc = "call"
    /\ IF Len(starts) = 0
       THEN pc' = "threw" /\ UNCHANGED gantt
       ELSE pc' = "done" /\ gantt' = buildGantTasks(gantt, starts, ends, now)
    /\ UNCHANGED <<starts, ends, now, cValue, cValue2, cTotal, cZero, cOut>>
    /\ UNCHANGED visualVars

\* GanttRing.calcPercent(value, total) with the default overflowValue
CalcPercent ==
    /\ pc = "calc" /\ cOut.op = "none"
    /\ cOut' = [ op |-> "calcPercent",
                 percent |-> calcPercent(cValue, cTotal, 100) ]
    /\ UNCHANGED <<starts, ends, now, gantt, pc, cValue, cValue2, cTotal, cZero>>
    /\ UNCHANGED visualVars

\* GanttRing.calcTaskRadians(value, duration, defaultToZero) on two values
\* of one span; the duration of a span is Math.abs(...) >= 0
CalcTaskRadians ==
    /\ pc = "calc" /\ cOut.op = "none" /\ cTotal >= 0
    /\ cOut' = [ op |-> "calcTaskRadians",
                 radians |-> calcTaskRadians(cValue, cTotal, cZero),
                 radians2 |-> calcTaskRadians(cValue2, cTotal, cZero) ]
    /\ UNCHANGED <<starts, ends, now, gantt, pc, cValue, cValue2, cTotal, cZero>>
    /\ UNCHANGED visualVars

Next == BuildGantTasks \/ CalcPercent \/ CalcTaskRadians

Spec == Init /\ [][Next]_vars

SpecPack == InitPack /\ [][BuildGantTasks]_vars

\* ------------------------------------------------ the actions of the visual
\* The handlers run one at a time; a then-callback of the selection
\* manager runs before the next event is handled.
buildVars == <<starts, ends, gantt, pc, cValue, cValue2, cTotal, cZero, cOut>>

Widget ==
    [ paths |-> paths, progressText |-> progressText,
      totalProgress |-> totalProgress, selectedIds |-> selectedIds,
      pending |-> pending ]

SetWidget(w) ==
    /\ paths' = w.paths
    /\ progressText' = w.progressText
    /\ totalProgress' = w.totalProgress
    /\ selectedIds' = w.selectedIds
    /\ pending' = w.pending

\* GanttRing.update(options): nothing without a data view; a converter
\* that throws leaves update() before draw()
Update ==
    /\ pc = "visual" /\ pending = <<>> /\ updates < MaxRefresh
    /\ \E dvs \in ViewOptions :
          /\ dataViews' = dvs
          /\ updates' = updates + 1
          /\ IF Len(dvs) = 0
             THEN /\ conv' = [outcome |-> "skipped", built |-> FALSE]
                  /\ UNCHANGED <<drawn, paths, progressText, totalProgress,
                                 selectedIds, pending>>
             ELSE LET r == converter(dvs[1], now, updates + 1)
                  IN  /\ conv' = [outcome |-> r.outcome, built |-> r.built]
                      /\ IF r.outcome = "threw"
                         THEN UNCHANGED <<drawn, paths, progressText,
                                          totalProgress, selectedIds, pending>>
                         ELSE /\ drawn' = <<r.gantt>>
                              /\ SetWidget(draw(Widget, r.gantt))
    /\ UNCHANGED now
    /\ UNCHANGED buildVars

\* time passes between two events
Tick ==
    /\ pc = "visual" /\ pending = <<>> /\ now < MaxNow
    /\ now' = now + 1
    /\ UNCHANGED buildVars
    /\ UNCHANGED visualVars

\* the click handler of a task path: selectionManager.select(d.selector)
ClickTask ==
    /\ pc = "visual" /\ pending = <<>>
    /\ \E i \in 1..Len(paths) :
          /\ selectedIds' =
                SelectionManagerSelect(selectedIds, paths[i].data.selector)
          /\ pending' = Append(pending, FALSE)
    /\ UNCHANGED <<dataViews, conv, updates, drawn, paths, progressText,
                   totalProgress, now>>
    /\ UNCHANGED buildVars

\* the click handler of the svg element: clearSelection()
ClickBackground ==
    /\ pc = "visual" /\ pending = <<>>
    /\ SetWidget(clearSelection(Widget))
    /\ UNCHANGED <<dataViews, conv, updates, drawn, now>>
    /\ UNCHANGED buildVars

\* the then-callback of select() or clear(): updateSelection(isClear)
RunCallback ==
    /\ pc = "visual" /\ pending # <<>>
    /\ SetWidget(updateSelection([Widget EXCEPT !.pending = Tail(@)],
                                 Head(pending)))
    /\ UNCHANGED <<dataViews, conv, updates, drawn, now>>
    /\ UNCHANGED buildVars

NextVisual == Update \/ Tick \/ ClickTask \/ ClickBackground \/ RunCallback

SpecVisual == InitVisual /\ [][NextVisual]_vars

SpecVisualFair == SpecVisual /\ WF_vars(RunCallback)

\* ========================================================== the properties
Done == pc = "done"
N == Len(gantt.tasks)
Positions == 1..N

\* the angle condition as the layout contract words it, for two tasks a, b
Disjoint(a, b) ==
    FGeq(a.startAngle, b.endAngle) \/ FLeq(a.endAngle, b.startAngle)

\* the layers that exist when the task at position p is processed: layer 0
\* and the layers of the tasks before p
ExistingLayers(p) == {0} \cup { gantt.tasks[q].layer : q \in 1..(p - 1) }

\* every member of layer l before position p leaves room for the task at p
Qualifies(l, p) ==
    \A q \in 1..(p - 1) :
        gantt.tasks[q].layer = l => Disjoint(gantt.tasks[q], gantt.tasks[p])

SetMin(S) == CHOOSE x \in S : \A y \in S : x <= y
SetMax(S) == CHOOSE x \in S : \A y \in S : x >= y

\* C1: with compression on, two distinct tasks of one layer never overlap
\* in angle.
C1_NoOverlapOnLayer ==
    (Done /\ gantt.compress) =>
        \A a, b \in Positions :
            (a # b /\ gantt.tasks[a].layer = gantt.tasks[b].layer)
                => Disjoint(gantt.tasks[a], gantt.tasks[b])

\* a compressed chart where the second and third arc share layer 1, both of
\* them overlapping the first arc
C1_Witness ==
    /\ Done /\ gantt.compress /\ N = 3
    /\ gantt.tasks[1].layer = 0
    /\ gantt.tasks[2].layer = 1 /\ gantt.tasks[3].layer = 1
    /\ FLt(gantt.tasks[2].startAngle, gantt.tasks[2].endAngle)
    /\ FLt(gantt.tasks[3].startAngle, gantt.tasks[3].endAngle)

\* C3: with compression on, each task lies in the lowest existing layer all
\* of whose earlier members leave it room, and in a new layer (one past the
\* highest existing one) only when no existing layer does; the layers of the
\* earlier tasks are the ones they were given when they were placed.
C3_FirstFitInInputOrder ==
    (Done /\ gantt.compress) =>
        \A p \in Positions :
            LET ok == { l \in ExistingLayers(p) : Qualifies(l, p) }
            IN  IF ok # {}
                THEN gantt.tasks[p].layer = SetMin(ok)
                ELSE gantt.tasks[p].layer = SetMax(ExistingLayers(p)) + 1

\* the third task fits layers 0 and 1 alike and is put in layer 0
C3_Witness ==
    /\ Done /\ gantt.compress /\ N = 3
    /\ gantt.tasks[2].layer = 1
    /\ Qualifies(0, 3) /\ Qualifies(1, 3)
    /\ gantt.tasks[3].layer = 0

\* C4: with compression off, the task at input position i has layer i and
\* the layer count is the number of tasks.
C4_IdentityLayers ==
    (Done /\ ~gantt.compress) =>
        /\ N = Len(starts)
        /\ \A p \in Positions : gantt.tasks[p].layer = p - 1
        /\ gantt.layers = Len(starts)

\* three tasks that compression would put in one layer get three layers
C4_Witness ==
    /\ Done /\ ~gantt.compress /\ N = 3 /\ gantt.layers = 3
    /\ \A a, b \in Positions : a # b => Disjoint(gantt.tasks[a], gantt.tasks[b])

\* the interval of the task at position p is not inverted
WellFormed(p) == starts[p] <= ends[p]

\* C5 as stated: every task of every chart has startAngle <= endAngle.
C5_StartLeqEnd_AnyTask ==
    Done => \A p \in Positions :
                FLeq(gantt.tasks[p].startAngle, gantt.tasks[p].endAngle)

\* C5 (amended): every task whose start timestamp is not after its end
\* timestamp has startAngle <= endAngle, whatever the other tasks are.
C5_StartLeqEnd ==
    Done => \A p \in Positions :
                WellFormed(p) =>
                    FLeq(gantt.tasks[p].startAngle, gantt.tasks[p].endAngle)

\* a proper arc that starts inside the ring, next to an inverted interval
C5_Witness ==
    /\ Done /\ N >= 2
    /\ \E p, q \in Positions :
         /\ starts[p] < ends[p] /\ ~WellFormed(q)
         /\ FLt(Int2F(0), gantt.tasks[p].startAngle)
         /\ FLt(gantt.tasks[p].startAngle, gantt.tasks[p].endAngle)

\* C6 as stated: a task whose start timestamp equals its end timestamp has
\* startAngle = endAngle, wherever it lies in the span.
C6_ZeroDurationIsPoint ==
    Done => \A p \in Positions :
                starts[p] = ends[p] =>
                    FEq(gantt.tasks[p].startAngle, gantt.tasks[p].endAngle)

\* C7: in a chart with at least one task the layer indices in use are
\* exactly 0..layers-1 and the layer count is the highest index plus one.
C7_ContiguousLayers ==
    (Done /\ N >= 1) =>
        LET used == { gantt.tasks[p].layer : p \in Positions }
        IN  /\ used = 0..(gantt.layers - 1)
            /\ gantt.layers = SetMax(used) + 1

\* a compressed chart of three tasks on two layers
C7_Witness ==
    /\ Done /\ gantt.compress /\ N = 3 /\ gantt.layers = 2
    /\ { gantt.tasks[p].layer : p \in Positions } = {0, 1}

\* a finite number within 0..100
InPercentRange(x) == x[2] > 0 /\ FLeq(Int2F(0), x) /\ FLeq(x, Int2F(100))

\* the progress of every task and of the chart is within 0..100
ProgressInRange ==
    Done => /\ InPercentRange(gantt.progress)
            /\ \A p \in Positions : InPercentRange(gantt.tasks[p].progress)

\* C8 as stated: for every total >= 0 and every value, calcPercent is within
\* 0..100 and calcPercent(D, D) = 100; every progress is within 0..100.
C8_PercentInRange_AnyValue ==
    /\ (cOut.op = "calcPercent" /\ cTotal >= 0) =>
          /\ InPercentRange(cOut.percent)
          /\ cValue = cTotal => FEq(cOut.percent, Int2F(100))
    /\ ProgressInRange

\* C8 (amended): for every total >= 0 and every value >= 0, calcPercent is
\* within 0..100 and calcPercent(D, D) = 100; the progress of every task
\* and of the chart is within 0..100, negative and zero durations included.
C8_PercentInRange ==
    /\ (cOut.op = "calcPercent" /\ cTotal >= 0 /\ cValue >= 0) =>
          /\ InPercentRange(cOut.percent)
          /\ cValue = cTotal => FEq(cOut.percent, Int2F(100))
    /\ ProgressInRange

\* calcPercent has been evaluated on a value strictly inside the total
C8_Witness ==
    /\ cOut.op = "calcPercent" /\ 0 < cValue /\ cValue < cTotal
    /\ FLt(Int2F(0), cOut.percent) /\ FLt(cOut.percent, Int2F(100))

\* C9 as stated: for one duration and values v1 <= v2 the angle of v1 is at
\* most the angle of v2, with and without defaultToZero.
C9_AngleMonotonic ==
    (cOut.op = "calcTaskRadians" /\ cValue <= cValue2) =>
        FLeq(cOut.radians, cOut.radians2)

\* the time ranges of the tasks at positions p and q overlap (touching
\* end-to-start is not an overlap)
TimeOverlap(p, q) == ~(starts[p] >= ends[q] \/ ends[p] <= starts[q])

\* the pairs of positions whose time ranges overlap
OverlappingPairs ==
    { pq \in Positions \X Positions : pq[1] < pq[2] /\ TimeOverlap(pq[1], pq[2]) }

\* C10 as stated: with compression on, pairwise disjoint time ranges give
\* exactly 1 layer and exactly one overlapping pair gives exactly 2 layers.
C10_DisjointOneLayer ==
    (Done /\ gantt.compress /\ N >= 1) =>
        /\ OverlappingPairs = {} => gantt.layers = 1
        /\ Cardinality(OverlappingPairs) = 1 => gantt.layers = 2

\* f gives every task one of k layers and no two tasks of a layer overlap
ValidLayering(f) ==
    \A a, b \in Positions :
        (a # b /\ f[a] = f[b]) => Disjoint(gantt.tasks[a], gantt.tasks[b])

CanLayer(k) == \E f \in [Positions -> 0..(k - 1)] : ValidLayering(f)

\* the least k from k on with CanLayer(k); one layer per task always works
RECURSIVE LeastLayers(_)
LeastLayers(k) == IF k >= N \/ CanLayer(k) THEN k ELSE LeastLayers(k + 1)

\* the least number of layers the tasks of the chart can be placed in
MinLayers == LeastLayers(0)

\* the tasks are in input order of non-decreasing start angle, each arc
\* with startAngle <= endAngle
InStartAngleOrder ==
    /\ \A p \in Positions :
         FLeq(gantt.tasks[p].startAngle, gantt.tasks[p].endAngle)
    /\ \A p, q \in Positions :
         p < q => FLeq(gantt.tasks[p].startAngle, gantt.tasks[q].startAngle)

Refreshed == Len(dataViews) > 0
Snapshot == dataViews[1]
NoTasksLabel == Label("Project Has No Tasks")

\* C11: the converter applied to an empty task list (a category column
\* with no values, or no category column) returns, without raising an
\* error, a chart of zero tasks and 0 layers, and the progress label of
\* that chart is the no-tasks label, with compression on and off.
C11_EmptyTaskListGivesNoTasksChart ==
    (Refreshed /\ Snapshot.names = <<>>) =>
        /\ conv.outcome = "returned"
        /\ drawn = << NewGantt(Snapshot.compress) >>
        /\ drawn[1].tasks = <<>> /\ drawn[1].layers = 0
        /\ totalProgress = NoTasksLabel

\* the snapshot lacks what the converter asks for before it builds
Degenerate(dv) == ~dv.categorical \/ dv.categories = 0 \/ dv.values < 2

\* C12: when the data view has no categorical data, no category column or
\* fewer than two value series, the converter returns the empty chart
\* (tasks empty, layers 0, progress 0, progressAngle 0) without calling
\* buildGantTasks and without raising an error, whatever the category
\* values are.
C12_DegenerateViewGivesEmptyChart ==
    (Refreshed /\ Degenerate(Snapshot)) =>
        /\ conv = [outcome |-> "returned", built |-> FALSE]
        /\ drawn = << NewGantt(Snapshot.compress) >>
        /\ drawn[1].tasks = <<>> /\ drawn[1].layers = 0
        /\ drawn[1].progress = Int2F(0) /\ drawn[1].progressAngle = Int2F(0)

\* a snapshot of one value series whose category column names two tasks
\* went through the converter, with compression on
C12_Witness ==
    /\ Refreshed /\ Snapshot.categorical /\ Snapshot.categories = 1
    /\ Snapshot.values = 1 /\ Len(Snapshot.names) = 2 /\ Snapshot.compress
    /\ conv.outcome = "returned" /\ ~conv.built
    /\ drawn = << NewGantt(TRUE) >>

\* the chart on screen is the chart of the last snapshot at the current
\* time: the chart drawn, the data of the task paths, the total label
ShowsSnapshot ==
    LET g == converter(Snapshot, now, updates).gantt
    IN  /\ drawn = <<g>>
        /\ [i \in 1..Len(paths) |-> paths[i].data] = g.tasks
        /\ totalProgress = getTotalProgressLabel(Len(g.tasks), g.progress)

\* C13: after every update that carries a data snapshot, in any sequence
\* of updates, the rendered chart is the chart built from that snapshot
\* alone (its tasks, layers and progress, for the compress flag and the
\* current time); nothing of an earlier chart remains.
C13_RefreshShowsSnapshotOnly ==
    [][(updates' # updates /\ Len(dataViews') > 0) => ShowsSnapshot']_vars

\* the same, for the updates whose converter returns
C13_ReturnedRefreshShowsSnapshotOnly ==
    [][(updates' # updates /\ Len(dataViews') > 0
            /\ conv'.outcome = "returned") => ShowsSnapshot']_vars

\* ---------------------------------------------------------- the selection
PathIndexes == 1..Len(paths)
AllPlain == \A i \in PathIndexes : paths[i].style = Plain

\* nothing selected, every path back to the unhighlighted style, the
\* progress text at the total label, no callback left
Settled ==
    /\ pending = <<>> /\ selectedIds = <<>>
    /\ AllPlain
    /\ progressText = totalProgress

\* the callback of a clearSelection is the next to run
ClearPending == pending # <<>> /\ Head(pending)

\* draw() ran updateSelection while the selected id was the selector of
\* none of the tasks just bound to the paths
StaleAtDraw ==
    /\ updates' # updates /\ Len(dataViews') > 0 /\ conv'.outcome = "returned"
    /\ Len(selectedIds) > 0
    /\ \A i \in 1..Len(paths') : paths'[i].data.selector # selectedIds[1]

\* C14: when updateSelection runs while the selected id is the selector
\* of no rendered task, it calls clearSelection once (the selection is
\* empty at once, one callback is pending); the callback of a
\* clearSelection runs updateSelection(true) on an empty selection and
\* calls no further clearSelection; and the cycle always ends, with no
\* selected id, every task path unhighlighted and the progress text at
\* the total progress label.
C14_StaleSelectionIsClearedOnce ==
    /\ [][StaleAtDraw => (selectedIds' = <<>> /\ pending' = <<TRUE>>)]_vars
    /\ [][(ClearPending /\ pending' # pending) => Settled']_vars
    /\ (ClearPending ~> Settled)

\* a refresh has taken away the selected task: the path that stays is
\* still dimmed and the text still shows the progress of the task that
\* was selected, the selection is empty and the clearSelection callback
\* is pending
C14_Witness ==
    /\ pending = <<TRUE>> /\ selectedIds = <<>>
    /\ updates >= 2 /\ conv.outcome = "returned"
    /\ \E i \in PathIndexes : paths[i].style = Dimmed
    /\ \A i \in PathIndexes : paths[i].style # Highlighted
    /\ progressText.s = "%" /\ totalProgress.s # "%"

\* the paths whose datum carries the first selected id
SelectedPaths ==
    IF Len(selectedIds) = 0 THEN {}
    ELSE { i \in PathIndexes : paths[i].data.selector = selectedIds[1] }

====
